---- MODULE Spec2Model ----
(***************************************************************************)
(* Track editor of the MOT dataset annotation tool: the dense tracklet     *)
(* array (txt2array), the per-tracklet crop store (visualize_tracklets)    *)
(* and the three editing commands split_tracklet, merge_tracklets and      *)
(* interpolate_tracklet, the text codec (txt2array, array2txt) and the     *)
(* existence chart (visualize_array).                                      *)
(*                                                                         *)
(* Numbers.  A box field is a float32.  It is modelled as NaN or a value   *)
(* on a uniform grid of Scale steps per pixel: v stands for v/Scale.  A    *)
(* store into the array rounds to the nearest grid value, ties to even,    *)
(* as the float32 store does; floor and ceil work on the unrounded value.  *)
(***************************************************************************)
EXTENDS Integers, Sequences, FiniteSets, TLC

\* ---- bounds of the model ----
MaxFrame == 4       \* largest frame id of the detection file
MaxRows == 4        \* axis-0 length up to which split/merge are explored
MaxGap == 3         \* largest max_gap argument
Scale == 2          \* grid steps per pixel

VARIABLES arr, store, imgs, last, txt, chart, mem

vars == <<arr, store, imgs, last, txt, chart, mem>>

\* ---- float fields ----
NaN == [nan |-> TRUE, v |-> 0]

Num(n) == [nan |-> FALSE, v |-> n]

isnan(x) == x.nan

NanCell == <<NaN, NaN, NaN, NaN>>

\* a box given in whole pixels
PxBox(b) == <<Num(b[1] * Scale), Num(b[2] * Scale), Num(b[3] * Scale), Num(b[4] * Scale)>>

any_isnan(bbox) == \E c \in 1..4 : isnan(bbox[c])

Max(S) == CHOOSE m \in S : \A n \in S : n <= m

Min(S) == CHOOSE m \in S : \A n \in S : m <= n

RECURSIVE SortedSeq(_)
\* the elements of a set of integers in ascending order
SortedSeq(S) == IF S = {} THEN <<>> ELSE <<Min(S)>> \o SortedSeq(S \ {Min(S)})

num_tracks(a) == Cardinality(DOMAIN a)

num_frames(a) == Cardinality(DOMAIN a[0])

\* np.full((nt, nf, 4), np.nan)
np_full(nt, nf) == [t \in 0..(nt - 1) |-> [f \in 0..(nf - 1) |-> NanCell]]

\* frames f >= 1 at which row tid has a box, by the test on x
has_box(a, tid) == {f \in DOMAIN a[tid] : ~isnan(a[tid][f][1])}

\* ---- txt2array ----
txt2array_zero_based(df) ==
    LET max_frame == IF df = <<>> THEN 0 ELSE Max({df[i].frame : i \in DOMAIN df})
        max_track == IF df = <<>> THEN 0 ELSE Max({df[i].track_id : i \in DOMAIN df})
        hits(t, f) == {i \in DOMAIN df : df[i].track_id - 1 = t /\ df[i].frame - 1 = f}
    IN  [t \in 0..max_track |-> [f \in 0..max_frame |->
            IF hits(t, f) = {} THEN NanCell ELSE df[Max(hits(t, f))].box]]

txt2array(df) ==
    LET max_frame == IF df = <<>> THEN 0 ELSE Max({df[i].frame : i \in DOMAIN df})
        max_track == IF df = <<>> THEN 0 ELSE Max({df[i].track_id : i \in DOMAIN df})
        hits(t, f) == {i \in DOMAIN df : df[i].track_id = t /\ df[i].frame = f}
    IN  [t \in 0..max_track |-> [f \in 0..max_frame |->
            IF hits(t, f) = {} THEN NanCell ELSE df[Max(hits(t, f))].box]]

\* ---- crop region: floor/ceil, clamp, degenerate test ----
ImgW == 20

ImgH == 20

FloorDiv(n, d) == n \div d

CeilDiv(n, d) == -((-n) \div d)

Clamp(lo, v, hi) == IF v < lo THEN lo ELSE IF v > hi THEN hi ELSE v

\* the box is (nx, ny, nw, nh) / den pixels
crop_bounds(nx, ny, nw, nh, den) ==
    LET x0 == Clamp(0, FloorDiv(nx, den), ImgW - 1)
        y0 == Clamp(0, FloorDiv(ny, den), ImgH - 1)
        x1 == Clamp(0, CeilDiv(nx + nw, den), ImgW)
        y1 == Clamp(0, CeilDiv(ny + nh, den), ImgH)
    IN  [ok |-> ~(x1 <= x0 \/ y1 <= y0), region |-> <<x0, y0, x1 - x0, y1 - y0>>]

\* ---- the crop store ----
\* store: track id of an existing directory tracklet_XXXX |-> its content
\*   files: frame id of an image file |-> the region it was cropped from
\*   has_manifest, rows: _manifest.csv, its rows after the header line
EmptyDir == [files |-> <<>>, has_manifest |-> FALSE, rows |-> <<>>]

ManifestRow(fid, region) == [frame |-> fid, box |-> region, filename |-> fid]

mkdir(st, tid) ==
    [t \in DOMAIN st \cup {tid} |-> IF t \in DOMAIN st THEN st[t] ELSE EmptyDir]

\* shutil.move of the image files `moved` of src_dir into dst_dir; a file of
\* the same name in dst_dir is replaced
move_files(st, src_dir, dst_dir, moved) ==
    [st EXCEPT
        ![dst_dir].files = [fid \in DOMAIN @ \cup moved |->
                                IF fid \in moved THEN st[src_dir].files[fid] ELSE @[fid]],
        ![src_dir].files = [fid \in DOMAIN @ \ moved |-> @[fid]]]

\* ---- visualize_tracklets ----
visualize_tracklets(img_dir, a) ==
    LET written(tid) == {fid \in 1..(num_frames(a) - 1) :
                            /\ fid \in img_dir
                            /\ ~any_isnan(a[tid][fid])
                            /\ crop_bounds(a[tid][fid][1].v, a[tid][fid][2].v,
                                           a[tid][fid][3].v, a[tid][fid][4].v, Scale).ok}
        region(tid, fid) == crop_bounds(a[tid][fid][1].v, a[tid][fid][2].v,
                                        a[tid][fid][3].v, a[tid][fid][4].v, Scale).region
        tids == {tid \in 1..(num_tracks(a) - 1) : written(tid) # {}}
    IN  [tid \in tids |->
            [files |-> [fid \in written(tid) |-> region(tid, fid)],
             has_manifest |-> TRUE,
             rows |-> LET fr == SortedSeq(written(tid))
                      IN  [i \in DOMAIN fr |-> ManifestRow(fr[i], region(tid, fr[i]))]]]

\* ---- split_tracklet ----
\* variant: the frame split_frame itself stays with tid
split_tracklet_arr_exclusive(a, tid, split_frame) ==
    LET nt == num_tracks(a)
        nf == num_frames(a)
        arr_new0 == [t \in 0..nt |-> IF t < nt THEN a[t] ELSE np_full(1, nf)[0]]
        arr_new1 == [arr_new0 EXCEPT ![nt] =
                        [f \in 0..(nf - 1) |-> IF f > split_frame THEN arr_new0[tid][f] ELSE @[f]]]
    IN  [arr_new1 EXCEPT ![tid] =
            [f \in 0..(nf - 1) |-> IF f > split_frame THEN NanCell ELSE @[f]]]

\* variant: only x is cleared in the original row
split_tracklet_arr_clear_x(a, tid, split_frame) ==
    LET nt == num_tracks(a)
        nf == num_frames(a)
        arr_new0 == [t \in 0..nt |-> IF t < nt THEN a[t] ELSE np_full(1, nf)[0]]
        arr_new1 == [arr_new0 EXCEPT ![nt] =
                        [f \in 0..(nf - 1) |-> IF f >= split_frame THEN arr_new0[tid][f] ELSE @[f]]]
    IN  [arr_new1 EXCEPT ![tid] =
            [f \in 0..(nf - 1) |-> IF f >= split_frame THEN [@[f] EXCEPT ![1] = NaN] ELSE @[f]]]

split_tracklet_arr(a, tid, split_frame) ==
    LET nt == num_tracks(a)
        nf == num_frames(a)
        new_tid == nt
        arr_new0 == [t \in 0..nt |-> IF t < nt THEN a[t] ELSE np_full(1, nf)[0]]
        arr_new1 == [arr_new0 EXCEPT ![new_tid] =
                        [f \in 0..(nf - 1) |-> IF f >= split_frame THEN arr_new0[tid][f] ELSE @[f]]]
    IN  [arr_new1 EXCEPT ![tid] =
            [f \in 0..(nf - 1) |-> IF f >= split_frame THEN NanCell ELSE @[f]]]

\* variant: the image of frame split_frame stays in the old directory
split_move_images_exclusive(st, tid, new_tid, split_frame) ==
    move_files(st, tid, new_tid, {fid \in DOMAIN st[tid].files : fid > split_frame})

\* shutil.move of the images with frame id >= split_frame
split_move_images(st, tid, new_tid, split_frame) ==
    move_files(st, tid, new_tid, {fid \in DOMAIN st[tid].files : fid >= split_frame})

\* variant: the row of frame split_frame stays in the old manifest
split_manifests_inclusive(st, tid, new_tid, split_frame) ==
    IF ~st[tid].has_manifest THEN st
    ELSE LET lines == st[tid].rows
         IN  [st EXCEPT
                ![tid].rows = SelectSeq(lines, LAMBDA r : r.frame <= split_frame),
                ![new_tid].has_manifest = TRUE,
                ![new_tid].rows = SelectSeq(lines, LAMBDA r : ~(r.frame <= split_frame))]

\* variant: the new manifest gets its header only
split_manifests_header_only(st, tid, new_tid, split_frame) ==
    IF ~st[tid].has_manifest THEN st
    ELSE [st EXCEPT
            ![tid].rows = SelectSeq(st[tid].rows, LAMBDA r : r.frame < split_frame),
            ![new_tid].has_manifest = TRUE]

split_manifests(st, tid, new_tid, split_frame) ==
    IF ~st[tid].has_manifest THEN st
    ELSE LET lines == st[tid].rows
         IN  [st EXCEPT
                ![tid].rows = SelectSeq(lines, LAMBDA r : r.frame < split_frame),
                ![new_tid].has_manifest = TRUE,
                ![new_tid].rows = SelectSeq(lines, LAMBDA r : ~(r.frame < split_frame))]

split_tracklet_fs(st, tid, new_tid, split_frame) ==
    LET st1 == mkdir(st, new_tid)
    IN  IF tid \notin DOMAIN st THEN st1
        ELSE split_manifests(split_move_images(st1, tid, new_tid, split_frame),
                             tid, new_tid, split_frame)

split_tid_ok(a, tid) == 1 <= tid /\ tid < num_tracks(a)

split_frame_ok(a, split_frame) == 1 <= split_frame /\ split_frame < num_frames(a)

\* the outcome of the last command: the new_tid it returned, or the error it
\* raised with the two arguments it was called with (a = b = 0 when it returned)
Result(op, a, b, status, ret) == [op |-> op, a |-> a, b |-> b, status |-> status, ret |-> ret]

\* mem: the command in progress, when its steps are followed one by one:
\* its arguments a and b, its in-memory array arr_new, the cells it has yet
\* to fill (todo), whether it has made a filesystem call (fs), and where it
\* is (pc); Idle between commands
Idle == [op |-> "none", a |-> 0, b |-> 0, arr_new |-> <<>>, todo |-> <<>>,
         fs |-> FALSE, pc |-> "idle"]

\* a command that ended in an error ends the run: it leaves the state of
\* the call, from which every command is explored anyway
Running == last.status = "ok"

\* what a command leaves: the saved array, the crop store and the outcome
Outcome(a, st, l) == [arr |-> a, store |-> st, last |-> l]

\* variant: the id returned is the last index of the array before it grew
split_tracklet_last_index(a, st, tid, split_frame) ==
    IF ~(split_tid_ok(a, tid) /\ split_frame_ok(a, split_frame))
    THEN Outcome(a, st, Result("split", tid, split_frame, "range", 0))
    ELSE Outcome(split_tracklet_arr(a, tid, split_frame),
                 split_tracklet_fs(st, tid, num_tracks(a), split_frame),
                 Result("split", 0, 0, "ok", num_tracks(a) - 1))

\* the command split_tracklet.py <tid> <split_frame>: load, split, save
split_tracklet(a, st, tid, split_frame) ==
    IF ~(split_tid_ok(a, tid) /\ split_frame_ok(a, split_frame))
    THEN Outcome(a, st, Result("split", tid, split_frame, "range", 0))
    ELSE Outcome(split_tracklet_arr(a, tid, split_frame),
                 split_tracklet_fs(st, tid, num_tracks(a), split_frame),
                 Result("split", 0, 0, "ok", num_tracks(a)))

\* the step of a command that leaves the outcome R
Leaves(R) ==
    /\ R.last.status = "ok" /\ R.last.op # "interpolate" => num_tracks(arr) < MaxRows
    /\ arr' = R.arr
    /\ store' = R.store
    /\ last' = R.last
    /\ UNCHANGED <<imgs, txt, chart, mem>>

Split ==
    /\ Running
    /\ \E tid \in 0..num_tracks(arr), split_frame \in 0..num_frames(arr) :
            Leaves(split_tracklet(arr, store, tid, split_frame))

\* ---- merge_tracklets ----
merge_ids_ok(a, tid_a, tid_b) ==
    ~(tid_a <= 0 \/ tid_b <= 0 \/ tid_a >= num_tracks(a) \/ tid_b >= num_tracks(a))

\* variant: frame 1 is ignored together with the padding column
merge_overlap_from_2(a, tid_a, tid_b) ==
    {f \in has_box(a, tid_a) \cap has_box(a, tid_b) : f > 1}

merge_overlap(a, tid_a, tid_b) ==
    {f \in has_box(a, tid_a) \cap has_box(a, tid_b) : f >= 1}

\* variant: the boxes of B are not copied
merge_tracklets_arr_a_only(a, tid_a, tid_b) ==
    LET nt == num_tracks(a)
        nf == num_frames(a)
        arr_new0 == [t \in 0..nt |-> IF t < nt THEN a[t] ELSE np_full(1, nf)[0]]
        a_mask == has_box(arr_new0, tid_a)
        arr_new1 == [arr_new0 EXCEPT ![nt] =
                        [f \in 0..(nf - 1) |-> IF f \in a_mask THEN arr_new0[tid_a][f] ELSE @[f]]]
    IN  [arr_new1 EXCEPT ![tid_a] = np_full(1, nf)[0], ![tid_b] = np_full(1, nf)[0]]

\* variant: the boxes of A are not copied
merge_tracklets_arr_b_only(a, tid_a, tid_b) ==
    LET nt == num_tracks(a)
        nf == num_frames(a)
        arr_new0 == [t \in 0..nt |-> IF t < nt THEN a[t] ELSE np_full(1, nf)[0]]
        b_mask == has_box(arr_new0, tid_b)
        arr_new1 == [arr_new0 EXCEPT ![nt] =
                        [f \in 0..(nf - 1) |-> IF f \in b_mask THEN arr_new0[tid_b][f] ELSE @[f]]]
    IN  [arr_new1 EXCEPT ![tid_a] = np_full(1, nf)[0], ![tid_b] = np_full(1, nf)[0]]

merge_tracklets_arr(a, tid_a, tid_b) ==
    LET nt == num_tracks(a)
        nf == num_frames(a)
        new_tid == nt
        arr_new0 == [t \in 0..nt |-> IF t < nt THEN a[t] ELSE np_full(1, nf)[0]]
        a_mask == has_box(arr_new0, tid_a)
        arr_new1 == [arr_new0 EXCEPT ![new_tid] =
                        [f \in 0..(nf - 1) |-> IF f \in a_mask THEN arr_new0[tid_a][f] ELSE @[f]]]
        b_mask == has_box(arr_new1, tid_b)
        arr_new2 == [arr_new1 EXCEPT ![new_tid] =
                        [f \in 0..(nf - 1) |-> IF f \in b_mask THEN arr_new1[tid_b][f] ELSE @[f]]]
    IN  [arr_new2 EXCEPT ![tid_a] = np_full(1, nf)[0], ![tid_b] = np_full(1, nf)[0]]

\* variant: the images are copied, the source directory keeps them
move_frame_images_copy(st, src_dir, dst_dir) ==
    IF src_dir \notin DOMAIN st THEN st
    ELSE [st EXCEPT ![dst_dir].files =
            [fid \in DOMAIN @ \cup DOMAIN st[src_dir].files |->
                IF fid \in DOMAIN @ THEN @[fid] ELSE st[src_dir].files[fid]]]

\* shutil.move of every frame image whose name is free in dst_dir
move_frame_images(st, src_dir, dst_dir) ==
    IF src_dir \notin DOMAIN st THEN st
    ELSE move_files(st, src_dir, dst_dir,
                    {fid \in DOMAIN st[src_dir].files : fid \notin DOMAIN st[dst_dir].files})

read_manifest_lines(st, dir) ==
    IF dir \notin DOMAIN st \/ ~st[dir].has_manifest
    THEN [header |-> FALSE, content |-> <<>>]
    ELSE [header |-> TRUE, content |-> st[dir].rows]

\* variant: the source manifest keeps its rows
truncate_manifest_kept(st, dir) == st

truncate_manifest(st, dir) ==
    IF dir \in DOMAIN st /\ st[dir].has_manifest THEN [st EXCEPT ![dir].rows = <<>>] ELSE st

\* variant: the rows of B are not written
write_new_manifest_a_only(st, tid_a, tid_b, new_tid) ==
    [st EXCEPT ![new_tid].has_manifest = TRUE,
               ![new_tid].rows = read_manifest_lines(st, tid_a).content]

\* the new _manifest.csv: the header, then the rows of A, then the rows of B
write_new_manifest(st, tid_a, tid_b, new_tid) ==
    [st EXCEPT ![new_tid].has_manifest = TRUE,
               ![new_tid].rows = read_manifest_lines(st, tid_a).content
                                 \o read_manifest_lines(st, tid_b).content]

merge_manifests(st, tid_a, tid_b, new_tid) ==
    LET a == read_manifest_lines(st, tid_a)
        b == read_manifest_lines(st, tid_b)
        st1 == write_new_manifest(st, tid_a, tid_b, new_tid)
        st2 == IF a.header THEN truncate_manifest(st1, tid_a) ELSE st1
    IN  IF b.header THEN truncate_manifest(st2, tid_b) ELSE st2

merge_tracklets_fs(st, tid_a, tid_b, new_tid) ==
    LET st1 == mkdir(st, new_tid)
        st2 == move_frame_images(st1, tid_a, new_tid)
        st3 == move_frame_images(st2, tid_b, new_tid)
    IN  merge_manifests(st3, tid_a, tid_b, new_tid)

merge_status(a, tid_a, tid_b) ==
    IF ~merge_ids_ok(a, tid_a, tid_b) THEN "range"
    ELSE IF tid_a = tid_b THEN "same"
    ELSE IF merge_overlap(a, tid_a, tid_b) # {} THEN "conflict"
    ELSE "ok"

\* variant: the new directory is made before the checks
merge_tracklets_mkdir_first(a, st, tid_a, tid_b) ==
    IF merge_status(a, tid_a, tid_b) # "ok"
    THEN Outcome(a, mkdir(st, num_tracks(a)),
                 Result("merge", tid_a, tid_b, merge_status(a, tid_a, tid_b), 0))
    ELSE Outcome(merge_tracklets_arr(a, tid_a, tid_b),
                 merge_tracklets_fs(st, tid_a, tid_b, num_tracks(a)),
                 Result("merge", 0, 0, "ok", num_tracks(a)))

\* the command merge_tracklets.py: load, merge, save
merge_tracklets(a, st, tid_a, tid_b) ==
    IF merge_status(a, tid_a, tid_b) # "ok"
    THEN Outcome(a, st, Result("merge", tid_a, tid_b, merge_status(a, tid_a, tid_b), 0))
    ELSE Outcome(merge_tracklets_arr(a, tid_a, tid_b),
                 merge_tracklets_fs(st, tid_a, tid_b, num_tracks(a)),
                 Result("merge", 0, 0, "ok", num_tracks(a)))

Merge ==
    /\ Running
    /\ \E tid_a \in 0..num_tracks(arr), tid_b \in 0..num_tracks(arr) :
            Leaves(merge_tracklets(arr, store, tid_a, tid_b))

\* ---- interpolate_tracklet ----
\* num / den rounded to the nearest integer, ties to the even one
RoundDiv(num, den) ==
    LET q == num \div den
        r == num % den
    IN  IF 2 * r < den THEN q
        ELSE IF 2 * r > den THEN q + 1
        ELSE IF q % 2 = 0 THEN q ELSE q + 1

\* variant: the weights are exchanged
lerp_swapped(x0, x1, k, gap) ==
    IF isnan(x0) \/ isnan(x1) THEN NaN
    ELSE Num(RoundDiv(k * x0.v + (gap - k) * x1.v, gap))

\* (1 - k/gap) * x0 + (k/gap) * x1, stored as float32
lerp(x0, x1, k, gap) ==
    IF isnan(x0) \/ isnan(x1) THEN NaN
    ELSE Num(RoundDiv((gap - k) * x0.v + k * x1.v, gap))

\* the crop of the interpolated box, taken before the store rounds it
interp_crop(bbox_start, bbox_end, k, gap) ==
    LET n(c) == (gap - k) * bbox_start[c].v + k * bbox_end[c].v
    IN  crop_bounds(n(1), n(2), n(3), n(4), gap * Scale)

\* variant: the loop over k is left after its first pass
fill_gap_first_only(S, tid, t, gap, bbox_start, bbox_end, k, img_dir) ==
    IF k >= gap THEN S
    ELSE LET f == t + k
             bbox_interp == [c \in 1..4 |-> lerp(bbox_start[c], bbox_end[c], k, gap)]
         IN  [arr |-> [S.arr EXCEPT ![tid][f] = bbox_interp], store |-> S.store]

RECURSIVE fill_gap_needs_image(_, _, _, _, _, _, _, _)
\* variant: a frame without source image is passed over before its cell is set
fill_gap_needs_image(S, tid, t, gap, bbox_start, bbox_end, k, img_dir) ==
    IF k >= gap THEN S
    ELSE LET f == t + k
             bbox_interp == [c \in 1..4 |-> lerp(bbox_start[c], bbox_end[c], k, gap)]
             crop == interp_crop(bbox_start, bbox_end, k, gap)
             files == S.store[tid].files
             S1 == IF f \notin img_dir THEN S
                   ELSE [arr |-> [S.arr EXCEPT ![tid][f] = bbox_interp],
                         store |-> IF crop.ok
                                   THEN [S.store EXCEPT ![tid].files =
                                            [g \in DOMAIN files \cup {f} |->
                                                IF g = f THEN crop.region ELSE files[g]]]
                                   ELSE S.store]
         IN  fill_gap_needs_image(S1, tid, t, gap, bbox_start, bbox_end, k + 1, img_dir)

RECURSIVE fill_gap(_, _, _, _, _, _, _, _)
\* the loop over k = 1..gap-1; S is [arr, store]
fill_gap(S, tid, t, gap, bbox_start, bbox_end, k, img_dir) ==
    IF k >= gap THEN S
    ELSE LET f == t + k
             bbox_interp == [c \in 1..4 |-> lerp(bbox_start[c], bbox_end[c], k, gap)]
             arr_new == [S.arr EXCEPT ![tid][f] = bbox_interp]
             crop == interp_crop(bbox_start, bbox_end, k, gap)
             files == S.store[tid].files
             st == IF f \in img_dir /\ crop.ok
                   THEN [S.store EXCEPT ![tid].files =
                            [g \in DOMAIN files \cup {f} |->
                                IF g = f THEN crop.region ELSE files[g]]]
                   ELSE S.store
         IN  fill_gap([arr |-> arr_new, store |-> st], tid, t, gap,
                      bbox_start, bbox_end, k + 1, img_dir)

RECURSIVE interp_pairs_exclusive(_, _, _, _, _, _)
\* variant: a gap of exactly max_gap is left open
interp_pairs_exclusive(S, frames, i, tid, max_gap, img_dir) ==
    IF i > Len(frames) - 1 THEN S
    ELSE LET t == frames[i]
             t_next == frames[i + 1]
             gap == t_next - t
             S1 == IF 1 < gap /\ gap < max_gap
                   THEN fill_gap(S, tid, t, gap, S.arr[tid][t], S.arr[tid][t_next], 1, img_dir)
                   ELSE S
         IN  interp_pairs_exclusive(S1, frames, i + 1, tid, max_gap, img_dir)

RECURSIVE interp_pairs(_, _, _, _, _, _)
\* the loop over the adjacent pairs (frames[i], frames[i+1])
interp_pairs(S, frames, i, tid, max_gap, img_dir) ==
    IF i > Len(frames) - 1 THEN S
    ELSE LET t == frames[i]
             t_next == frames[i + 1]
             gap == t_next - t
             S1 == IF 1 < gap /\ gap <= max_gap
                   THEN fill_gap(S, tid, t, gap, S.arr[tid][t], S.arr[tid][t_next], 1, img_dir)
                   ELSE S
         IN  interp_pairs(S1, frames, i + 1, tid, max_gap, img_dir)

interpolate_tracklet_fn(a, st, tid, max_gap, img_dir) ==
    LET S0 == [arr |-> a, store |-> mkdir(st, tid)]
        frames == SortedSeq({f \in has_box(a, tid) : f >= 1})
    IN  IF Len(frames) < 2 THEN S0
        ELSE interp_pairs(S0, frames, 1, tid, max_gap, img_dir)

\* variant: the padding row passes the check
interpolate_tid_ok_from_0(a, tid) == 0 <= tid /\ tid < num_tracks(a)

interpolate_tid_ok(a, tid) == 1 <= tid /\ tid < num_tracks(a)

\* the command interpolate_tracklet.py <tid> --max_gap <max_gap>: load, fill, save
interpolate_tracklet(a, st, tid, max_gap, img_dir) ==
    IF ~interpolate_tid_ok(a, tid)
    THEN Outcome(a, st, Result("interpolate", tid, max_gap, "range", 0))
    ELSE LET S == interpolate_tracklet_fn(a, st, tid, max_gap, img_dir)
         IN  Outcome(S.arr, S.store, Result("interpolate", 0, 0, "ok", 0))

Interpolate ==
    /\ Running
    /\ \E tid \in 0..num_tracks(arr), max_gap \in 1..MaxGap :
            Leaves(interpolate_tracklet(arr, store, tid, max_gap, imgs))

\* ---- a filesystem step that raises (OSError) part-way ----
\* split_tracklet: the stores a failing move or manifest write can leave
split_tracklet_fs_failed(st, tid, new_tid, split_frame) ==
    LET st1 == mkdir(st, new_tid)
        to_move == IF tid \in DOMAIN st
                   THEN {fid \in DOMAIN st[tid].files : fid >= split_frame} ELSE {}
        st2 == split_move_images(st1, tid, new_tid, split_frame)
        lines == st2[tid].rows
        written(i) == SubSeq(lines, 1, i)
    IN  IF tid \notin DOMAIN st THEN {st, st1}
        ELSE {move_files(st1, tid, new_tid, M) : M \in SUBSET to_move}
             \cup (IF ~st2[tid].has_manifest THEN {}
                   ELSE {[st2 EXCEPT
                            ![tid].rows = SelectSeq(written(i), LAMBDA r : r.frame < split_frame),
                            ![new_tid].has_manifest = TRUE,
                            ![new_tid].rows = SelectSeq(written(i),
                                                        LAMBDA r : ~(r.frame < split_frame))] :
                          i \in 0..(Len(lines) - 1)})

\* merge_tracklets: the stores a failing move or manifest write can leave
merge_tracklets_fs_failed(st, tid_a, tid_b, new_tid) ==
    LET st1 == mkdir(st, new_tid)
        free(s, d) == IF d \in DOMAIN s
                      THEN {fid \in DOMAIN s[d].files : fid \notin DOMAIN s[new_tid].files}
                      ELSE {}
        st2 == move_frame_images(st1, tid_a, new_tid)
        st3 == move_frame_images(st2, tid_b, new_tid)
        st4 == write_new_manifest(st3, tid_a, tid_b, new_tid)
    IN  {st, st4, truncate_manifest(st4, tid_a)}
        \cup {move_files(st1, tid_a, new_tid, M) : M \in SUBSET free(st1, tid_a)}
        \cup {move_files(st2, tid_b, new_tid, M) : M \in SUBSET free(st2, tid_b)}

\* the exception leaves the command before np.save: the array is not written
SplitFails ==
    /\ Running
    /\ num_tracks(arr) < MaxRows
    /\ \E tid \in 1..(num_tracks(arr) - 1), split_frame \in 1..(num_frames(arr) - 1) :
        \E st \in split_tracklet_fs_failed(store, tid, num_tracks(arr), split_frame) :
            /\ store' = st
            /\ last' = Result("split", tid, split_frame, "OSError", 0)
            /\ UNCHANGED <<arr, imgs, txt, chart, mem>>

MergeFails ==
    /\ Running
    /\ num_tracks(arr) < MaxRows
    /\ \E tid_a \in 1..(num_tracks(arr) - 1), tid_b \in 1..(num_tracks(arr) - 1) :
        /\ merge_status(arr, tid_a, tid_b) = "ok"
        /\ \E st \in merge_tracklets_fs_failed(store, tid_a, tid_b, num_tracks(arr)) :
            /\ store' = st
            /\ last' = Result("merge", tid_a, tid_b, "OSError", 0)
            /\ UNCHANGED <<arr, imgs, txt, chart, mem>>

\* ---- the command run after one that failed ----
\* the array was not saved, so the command mints the id of the failed one
SplitAfterFailure ==
    /\ last.status = "OSError"
    /\ \E tid \in 0..num_tracks(arr), split_frame \in 0..num_frames(arr) :
            Leaves(split_tracklet(arr, store, tid, split_frame))

MergeAfterFailure ==
    /\ last.status = "OSError"
    /\ \E tid_a \in 0..num_tracks(arr), tid_b \in 0..num_tracks(arr) :
            Leaves(merge_tracklets(arr, store, tid_a, tid_b))

\* ---- the detection text file: txt2array and array2txt ----
\* txt: the rows of the text file; a box value with two decimals is its
\* number of hundredths.  In the codec a float32 keeps its exact value
\* v / 2^e, v below 2^24 (24 bits of mantissa).
RECURSIVE Pow2(_)
Pow2(n) == IF n = 0 THEN 1 ELSE 2 * Pow2(n - 1)

Float32(m, e) == [nan |-> FALSE, v |-> m, e |-> e]

\* astype(np.float32) of the decimal n / 100, n >= 0: the nearest float32
astype_float32(n) ==
    IF n = 0 THEN Float32(0, 0)
    ELSE LET e == Max({k \in 0..30 : n <= (100 * Pow2(24) - 1) \div Pow2(k)})
             m == RoundDiv(n * Pow2(e), 100)
         IN  IF m = Pow2(24) THEN Float32(Pow2(23), e - 1) ELSE Float32(m, e)

\* variant: the text keeps the digits after cutting, not rounding
format_2f_truncated(x) == (x.v * 100) \div Pow2(x.e)

\* f"{x:.2f}": the hundredths nearest to the value
format_2f(x) == RoundDiv(x.v * 100, Pow2(x.e))

\* pd.read_csv and the astype calls: the columns frame, track_id, x, y, w, h
read_csv(rows) ==
    [i \in DOMAIN rows |->
        [frame |-> rows[i].frame, track_id |-> rows[i].track_id,
         box |-> <<astype_float32(rows[i].box[1]), astype_float32(rows[i].box[2]),
                   astype_float32(rows[i].box[3]), astype_float32(rows[i].box[4])>>]]

\* one row per cell without NaN, frames ascending, then tracks
array2txt(a) ==
    LET nt == num_tracks(a)
        nf == num_frames(a)
        keys == {f * nt + t : f \in 1..(nf - 1), t \in 1..(nt - 1)}
        ord == SortedSeq({k \in keys : ~any_isnan(a[k % nt][k \div nt])})
    IN  [i \in DOMAIN ord |->
            LET bbox == a[ord[i] % nt][ord[i] \div nt]
            IN  [frame |-> ord[i] \div nt, track_id |-> ord[i] % nt,
                 box |-> <<format_2f(bbox[1]), format_2f(bbox[2]),
                           format_2f(bbox[3]), format_2f(bbox[4])>>]]

\* the command array2txt.py: load the array, write the text file
Array2txt ==
    /\ last.op = "txt2array"
    /\ txt' = array2txt(arr)
    /\ last' = Result("array2txt", 0, 0, "ok", 0)
    /\ UNCHANGED <<arr, store, imgs, chart, mem>>

\* the command txt2array.py on the file array2txt wrote
Txt2array ==
    /\ last.op = "array2txt"
    /\ arr' = txt2array(read_csv(txt))
    /\ last' = Result("txt2array", 0, 0, "ok", 1)
    /\ UNCHANGED <<store, imgs, txt, chart, mem>>

\* well-formed text files: 1-based ids, one record per (frame, track_id),
\* two decimals, rows in any order
TextValues == {0, 1, 999, 1000, 13107199, 13107201}

TextRecords ==
    {[frame |-> f, track_id |-> t, box |-> <<x, 0, 1000, 1000>>] :
        f \in {1, 2}, t \in {1, 2}, x \in TextValues}

TextFiles ==
    {<<r>> : r \in TextRecords}
    \cup {rq \in {<<r, q>> : r \in TextRecords, q \in TextRecords} :
              <<rq[1].frame, rq[1].track_id>> # <<rq[2].frame, rq[2].track_id>>}

InitCodec ==
    /\ \E rows \in TextFiles : txt = rows /\ arr = txt2array(read_csv(rows))
    /\ store = <<>>
    /\ imgs = {}
    /\ last = Result("txt2array", 0, 0, "ok", 0)
    /\ chart = <<>>
    /\ mem = Idle

NextCodec == Array2txt \/ Txt2array

SpecCodec == InitCodec /\ [][NextCodec]_vars

\* ---- initial states ----
InitBoxes == {PxBox(<<0, 0, 10, 10>>), PxBox(<<9, 0, 10, 10>>)}

InitTracks == {1, 2}

Cells == InitTracks \X (1..MaxFrame)

\* a well-formed detection file: 1-based ids, one record per (frame, track),
\* rows in ascending frame, then track
RECURSIVE RowsOf(_, _)
RowsOf(P, b) ==
    IF P = {} THEN <<>>
    ELSE LET m == CHOOSE p \in P : \A q \in P :
                        p[2] < q[2] \/ (p[2] = q[2] /\ p[1] <= q[1])
         IN  <<[frame |-> m[2], track_id |-> m[1], box |-> b[m]]>> \o RowsOf(P \ {m}, b)

RecordCounts == {0, 1, 2}

DetectionFiles ==
    UNION {{RowsOf(P, b) : b \in [P -> InitBoxes]} :
              P \in {Q \in SUBSET Cells : Cardinality(Q) \in RecordCounts}}

\* the frames whose source image is missing
MissingImages == {{}, {2}}

Init ==
    /\ \E df \in DetectionFiles : arr = txt2array(df)
    /\ \E miss \in MissingImages : imgs = (1..MaxFrame) \ miss
    /\ store = visualize_tracklets(imgs, arr)
    /\ last = Result("load", 0, 0, "ok", 0)
    /\ txt = <<>>
    /\ chart = <<>>
    /\ mem = Idle

Next == Split \/ Merge \/ Interpolate

Spec == Init /\ [][Next]_vars

\* the same commands when a filesystem call may fail
NextF == Next \/ SplitFails \/ MergeFails

SpecF == Init /\ [][NextF]_vars

\* ---- the commands step by step ----
\* split_tracklet: the checks and the array, lines 23-39
SplitMutate ==
    /\ Running /\ mem = Idle
    /\ num_tracks(arr) < MaxRows
    /\ \E tid \in (1..(num_tracks(arr) - 1)), split_frame \in 1..(num_frames(arr) - 1) :
        mem' = [op |-> "split", a |-> tid, b |-> split_frame,
                arr_new |-> split_tracklet_arr(arr, tid, split_frame),
                todo |-> <<>>, fs |-> FALSE, pc |-> "fs"]
    /\ UNCHANGED <<arr, store, imgs, last, txt, chart>>

\* split_tracklet: mkdir, the moves and the manifests, lines 41-77
SplitFs ==
    /\ mem.op = "split" /\ mem.pc = "fs"
    /\ store' = split_tracklet_fs(store, mem.a, num_tracks(arr), mem.b)
    /\ mem' = [mem EXCEPT !.fs = TRUE, !.pc = "save"]
    /\ UNCHANGED <<arr, imgs, last, txt, chart>>

\* one of them raises: main is left before np.save
SplitFsFails ==
    /\ mem.op = "split" /\ mem.pc = "fs"
    /\ store' \in split_tracklet_fs_failed(store, mem.a, num_tracks(arr), mem.b)
    /\ last' = Result("split", mem.a, mem.b, "OSError", 0)
    /\ mem' = Idle
    /\ UNCHANGED <<arr, imgs, txt, chart>>

\* merge_tracklets: the checks and the array, lines 22-59
MergeMutate ==
    /\ Running /\ mem = Idle
    /\ num_tracks(arr) < MaxRows
    /\ \E tid_a \in (1..(num_tracks(arr) - 1)), tid_b \in (1..(num_tracks(arr) - 1)) :
        /\ merge_status(arr, tid_a, tid_b) = "ok"
        /\ mem' = [op |-> "merge", a |-> tid_a, b |-> tid_b,
                   arr_new |-> merge_tracklets_arr(arr, tid_a, tid_b),
                   todo |-> <<>>, fs |-> FALSE, pc |-> "fs"]
    /\ UNCHANGED <<arr, store, imgs, last, txt, chart>>

\* merge_tracklets: makedirs, the moves and the manifests, lines 61-122
MergeFs ==
    /\ mem.op = "merge" /\ mem.pc = "fs"
    /\ store' = merge_tracklets_fs(store, mem.a, mem.b, num_tracks(arr))
    /\ mem' = [mem EXCEPT !.fs = TRUE, !.pc = "save"]
    /\ UNCHANGED <<arr, imgs, last, txt, chart>>

MergeFsFails ==
    /\ mem.op = "merge" /\ mem.pc = "fs"
    /\ store' \in merge_tracklets_fs_failed(store, mem.a, mem.b, num_tracks(arr))
    /\ last' = Result("merge", mem.a, mem.b, "OSError", 0)
    /\ mem' = Idle
    /\ UNCHANGED <<arr, imgs, txt, chart>>

RECURSIVE fill_steps(_, _, _)
\* the passes (t, t_next, k) of the two loops of interpolate_tracklet, in order
fill_steps(frames, i, max_gap) ==
    IF i > Len(frames) - 1 THEN <<>>
    ELSE LET t == frames[i]
             t_next == frames[i + 1]
             gap == t_next - t
         IN  (IF 1 < gap /\ gap <= max_gap
              THEN [k \in 1..(gap - 1) |-> <<t, t_next, k>>]
              ELSE <<>>) \o fill_steps(frames, i + 1, max_gap)

\* interpolate_tracklet: the check, the copy, mkdir and `frames`, lines 22-36
InterpolateBegin ==
    /\ Running /\ mem = Idle
    /\ \E tid \in (1..(num_tracks(arr) - 1)), max_gap \in 1..MaxGap :
        LET frames == SortedSeq({f \in has_box(arr, tid) : f >= 1})
            todo == IF Len(frames) < 2 THEN <<>> ELSE fill_steps(frames, 1, max_gap)
        IN  /\ store' = mkdir(store, tid)
            /\ mem' = [op |-> "interpolate", a |-> tid, b |-> max_gap, arr_new |-> arr,
                       todo |-> todo, fs |-> TRUE,
                       pc |-> IF todo = <<>> THEN "save" ELSE "fill"]
    /\ UNCHANGED <<arr, imgs, last, txt, chart>>

\* one pass of the loop over k: the cell, lines 50-54
InterpolateFill ==
    /\ mem.op = "interpolate" /\ mem.pc = "fill"
    /\ LET t == mem.todo[1][1]
           t_next == mem.todo[1][2]
           k == mem.todo[1][3]
           bbox_interp == [c \in 1..4 |-> lerp(mem.arr_new[mem.a][t][c],
                                               mem.arr_new[mem.a][t_next][c], k, t_next - t)]
       IN  mem' = [mem EXCEPT !.arr_new[mem.a][t + k] = bbox_interp, !.pc = "crop"]
    /\ UNCHANGED <<arr, store, imgs, last, txt, chart>>

\* the same pass: the crop, lines 56-86
InterpolateCrop ==
    /\ mem.op = "interpolate" /\ mem.pc = "crop"
    /\ LET t == mem.todo[1][1]
           t_next == mem.todo[1][2]
           k == mem.todo[1][3]
           f == t + k
           crop == interp_crop(mem.arr_new[mem.a][t], mem.arr_new[mem.a][t_next],
                               k, t_next - t)
           files == store[mem.a].files
       IN  store' = IF f \in imgs /\ crop.ok
                    THEN [store EXCEPT ![mem.a].files =
                            [g \in DOMAIN files \cup {f} |->
                                IF g = f THEN crop.region ELSE files[g]]]
                    ELSE store
    /\ mem' = [mem EXCEPT !.todo = Tail(@),
                          !.pc = IF Len(mem.todo) = 1 THEN "save" ELSE "fill"]
    /\ UNCHANGED <<arr, imgs, last, txt, chart>>

\* main: np.save after the function has returned
Save ==
    /\ mem.pc = "save"
    /\ arr' = mem.arr_new
    /\ last' = Result(mem.op, 0, 0, "ok",
                      IF mem.op = "interpolate" THEN 0 ELSE num_tracks(arr))
    /\ mem' = Idle
    /\ UNCHANGED <<store, imgs, txt, chart>>

NextSteps ==
    \/ SplitMutate \/ SplitFs \/ SplitFsFails
    \/ MergeMutate \/ MergeFs \/ MergeFsFails
    \/ InterpolateBegin \/ InterpolateFill \/ InterpolateCrop
    \/ Save

SpecSteps == Init /\ [][NextSteps]_vars

\* ---- visualize_array ----
\* chart: track id |-> the lines (start, end) drawn for it, in drawing order
RECURSIVE scan_row(_, _, _, _)
\* the lines drawn from frame f on; start = 0 stands for None
scan_row(has, nf, f, start) ==
    IF f > nf - 1 THEN <<>>
    ELSE IF f \in has /\ start = 0 THEN scan_row(has, nf, f + 1, f)
    ELSE IF (f \notin has \/ f = nf - 1) /\ start # 0
         THEN <<<<start, IF f \in has THEN f ELSE f - 1>>>> \o scan_row(has, nf, f + 1, 0)
         ELSE scan_row(has, nf, f + 1, start)

visualize_array(a) ==
    [tid \in 1..(num_tracks(a) - 1) |-> scan_row(has_box(a, tid), num_frames(a), 1, 0)]

\* the command visualize_array.py; the run ends with the chart on display
VisualizeArray ==
    /\ Running
    /\ chart' = visualize_array(arr)
    /\ last' = Result("visualize_array", 0, 0, "shown", 0)
    /\ UNCHANGED <<arr, store, imgs, txt, mem>>

NextView == Split \/ Merge \/ Interpolate \/ VisualizeArray

SpecView == Init /\ [][NextView]_vars

\* ---- the crops of boxes at and beyond the image border ----
CropBoxes ==
    {PxBox(<<0, 0, 10, 10>>), PxBox(<<15, 15, 10, 10>>),
     PxBox(<<25, 25, 5, 5>>), PxBox(<<-10, -10, 5, 5>>)}

CropDetectionFiles ==
    UNION {{RowsOf(P, b) : b \in [P -> CropBoxes]} :
              P \in {Q \in SUBSET ({1} \X (1..MaxFrame)) : Cardinality(Q) \in RecordCounts}}

\* the array is loaded, the crop store is not written yet
InitCrop ==
    /\ \E df \in CropDetectionFiles : arr = txt2array(df)
    /\ \E miss \in MissingImages : imgs = (1..MaxFrame) \ miss
    /\ store = <<>>
    /\ last = Result("load", 0, 0, "ok", 0)
    /\ txt = <<>>
    /\ chart = <<>>
    /\ mem = Idle

\* the command visualize_tracklets.py on a new output directory
Visualize ==
    /\ last.op = "load"
    /\ store' = visualize_tracklets(imgs, arr)
    /\ last' = Result("visualize", 0, 0, "ok", 0)
    /\ UNCHANGED <<arr, imgs, txt, chart, mem>>

NextCrop == Visualize \/ Interpolate

SpecCrop == InitCrop /\ [][NextCrop]_vars

\* runs in which a failed command is followed by another command
NextR == SplitFails \/ MergeFails \/ SplitAfterFailure \/ MergeAfterFailure

SpecR == Init /\ [][NextR]_vars

(***************************************************************************)
(* The claims                                                              *)
(***************************************************************************)
TrackIds(a) == 1..(num_tracks(a) - 1)

FrameIds(a) == 1..(num_frames(a) - 1)

\* the frames >= 1 at which the cell of tid is not absent (x is not NaN)
Present(a, tid) == {f \in FrameIds(a) : ~isnan(a[tid][f][1])}

\* the non-absent cells of a row, as (frame, box) pairs
Boxes(a, tid) == {<<f, a[tid][f]>> : f \in Present(a, tid)}

RowAbsent(a, tid) == \A f \in DOMAIN a[tid] : a[tid][f] = NanCell

Returned(op) == last.op = op /\ last.status = "ok"

\* C1: after Split(tid, f) every frame < f keeps its cell under tid and is
\* absent under new_tid, every frame >= f has the old cell of tid under
\* new_tid and is absent under tid, and the two rows together hold as many
\* boxes as tid held before.
C1_SplitPartition ==
    Running => \A tid \in TrackIds(arr), f \in FrameIds(arr) :
        LET R == split_tracklet(arr, store, tid, f)
            new_tid == R.last.ret
        IN  /\ R.last.status = "ok"
            /\ \A fr \in DOMAIN arr[tid] :
                    IF fr < f
                    THEN R.arr[tid][fr] = arr[tid][fr] /\ R.arr[new_tid][fr] = NanCell
                    ELSE R.arr[new_tid][fr] = arr[tid][fr] /\ R.arr[tid][fr] = NanCell
            /\ Cardinality(Present(R.arr, tid)) + Cardinality(Present(R.arr, new_tid))
                     = Cardinality(Present(arr, tid))

\* a split has returned, the new row holds boxes and an older row holds
\* boxes at earlier frames only
C1_Witness ==
    /\ Returned("split")
    /\ Present(arr, last.ret) # {}
    /\ \E tid \in 1..(last.ret - 1) :
        /\ Present(arr, tid) # {}
        /\ Max(Present(arr, tid)) < Min(Present(arr, last.ret))

\* C2: after a successful Merge(tid_a, tid_b) the rows of tid_a and tid_b are
\* entirely absent and the boxes of new_tid are exactly the boxes tid_a and
\* tid_b held, frame by frame; their number is the sum of the two.
C2_MergeUnion ==
    Running => \A tid_a \in TrackIds(arr), tid_b \in TrackIds(arr) :
        LET R == merge_tracklets(arr, store, tid_a, tid_b)
            new_tid == R.last.ret
        IN  R.last.status = "ok" =>
                /\ RowAbsent(R.arr, tid_a)
                /\ RowAbsent(R.arr, tid_b)
                /\ Boxes(R.arr, new_tid) = Boxes(arr, tid_a) \cup Boxes(arr, tid_b)
                /\ Cardinality(Present(R.arr, new_tid))
                     = Cardinality(Present(arr, tid_a)) + Cardinality(Present(arr, tid_b))

\* a merge has returned a row of at least two boxes
C2_Witness ==
    /\ Returned("merge")
    /\ Cardinality(Present(arr, last.ret)) >= 2

\* C3: Merge of two distinct in-range tracks that share a frame >= 1 raises
\* the conflict error and changes nothing: same array (no new row), same
\* crop files, directories and manifests.
C3_ConflictNoMutation ==
    Running => \A tid_a \in TrackIds(arr), tid_b \in TrackIds(arr) :
        (tid_a # tid_b /\ Present(arr, tid_a) \cap Present(arr, tid_b) # {}) =>
            LET R == merge_tracklets(arr, store, tid_a, tid_b)
            IN  R.last.status = "conflict" /\ R.arr = arr /\ R.store = store

\* a merge of two tracks that share a frame has been rejected
C3_Witness ==
    /\ last.op = "merge"
    /\ last.status = "conflict"
    /\ Present(arr, last.a) \cap Present(arr, last.b) # {}

Rejected(R) == R.last.status \in {"range", "same"} /\ R.arr = arr /\ R.store = store

\* C4: Split, Merge and Interpolate with a track id outside 1..nt-1, Split
\* with a split frame outside 1..nf-1 and Merge with tid_a = tid_b raise an
\* error and change neither the array nor the crop store.
C4_RangeRejected ==
    Running =>
       /\ \A tid \in 0..num_tracks(arr), f \in 0..num_frames(arr) :
            (tid \notin TrackIds(arr) \/ f \notin FrameIds(arr)) =>
                Rejected(split_tracklet(arr, store, tid, f))
       /\ \A tid_a \in 0..num_tracks(arr), tid_b \in 0..num_tracks(arr) :
            (tid_a \notin TrackIds(arr) \/ tid_b \notin TrackIds(arr) \/ tid_a = tid_b) =>
                Rejected(merge_tracklets(arr, store, tid_a, tid_b))
       /\ \A tid \in 0..num_tracks(arr), max_gap \in 1..MaxGap :
            tid \notin TrackIds(arr) =>
                Rejected(interpolate_tracklet(arr, store, tid, max_gap, imgs))

\* a split at the frame just past the last one has been rejected
C4_Witness ==
    /\ last.op = "split"
    /\ last.status = "range"
    /\ last.a \in TrackIds(arr)
    /\ last.b = num_frames(arr)

\* t and t_next are adjacent present frames of tid
Adjacent(a, tid, t, t_next) ==
    /\ t \in Present(a, tid)
    /\ t_next \in Present(a, tid)
    /\ t < t_next
    /\ \A f \in Present(a, tid) : ~(t < f /\ f < t_next)

\* w is the grid value nearest to ((gap - k) * x0 + k * x1) / gap
NearestTo(w, x0, x1, k, gap) ==
    LET d == gap * w.v - ((gap - k) * x0.v + k * x1.v)
    IN  ~isnan(w) /\ 2 * d <= gap /\ -2 * d <= gap

\* C5: Interpolate(tid, max_gap) fills every frame t+k strictly between two
\* adjacent present frames t, t_next with 1 < gap <= max_gap with
\* box(t) + (k/gap) * (box(t_next) - box(t)) per field, as the array stores
\* it (exact where the grid has the value), and fills nothing when gap = 1
\* or gap > max_gap; (0,0,10,10) and (9,0,10,10) three frames apart give
\* (3,0,10,10) and (6,0,10,10) when max_gap >= 3 and nothing when max_gap = 2.
C5_InterpolateLinear ==
    Running => \A tid \in TrackIds(arr), max_gap \in 1..MaxGap :
        LET R == interpolate_tracklet(arr, store, tid, max_gap, imgs)
        IN  \A t \in FrameIds(arr), t_next \in FrameIds(arr) :
                Adjacent(arr, tid, t, t_next) =>
                    LET gap == t_next - t
                    IN  /\ \A k \in 1..(gap - 1) :
                            IF 1 < gap /\ gap <= max_gap
                            THEN \A c \in 1..4 :
                                    NearestTo(R.arr[tid][t + k][c],
                                              arr[tid][t][c], arr[tid][t_next][c], k, gap)
                            ELSE R.arr[tid][t + k] = NanCell
                        /\ (/\ gap = 3
                            /\ arr[tid][t] = PxBox(<<0, 0, 10, 10>>)
                            /\ arr[tid][t_next] = PxBox(<<9, 0, 10, 10>>)) =>
                                IF max_gap >= 3
                                THEN /\ R.arr[tid][t + 1] = PxBox(<<3, 0, 10, 10>>)
                                     /\ R.arr[tid][t + 2] = PxBox(<<6, 0, 10, 10>>)
                                ELSE /\ R.arr[tid][t + 1] = NanCell
                                     /\ R.arr[tid][t + 2] = NanCell

\* an interpolation has returned with the two boxes of the example filled
C5_Witness ==
    /\ Returned("interpolate")
    /\ \E tid \in TrackIds(arr), t \in FrameIds(arr) :
        /\ t + 3 \in FrameIds(arr)
        /\ arr[tid][t] = PxBox(<<0, 0, 10, 10>>)
        /\ arr[tid][t + 1] = PxBox(<<3, 0, 10, 10>>)
        /\ arr[tid][t + 2] = PxBox(<<6, 0, 10, 10>>)
        /\ arr[tid][t + 3] = PxBox(<<9, 0, 10, 10>>)

\* C6: Interpolate is idempotent: from every array, for every in-range tid
\* and every max_gap, a second run with the same arguments leaves the array
\* of the first run as it is.
C6_InterpolateIdempotent ==
    Running => \A tid \in TrackIds(arr), max_gap \in 1..MaxGap :
        LET once == interpolate_tracklet_fn(arr, store, tid, max_gap, imgs)
            twice == interpolate_tracklet_fn(once.arr, once.store, tid, max_gap, imgs)
        IN  twice.arr = once.arr

\* an interpolation has returned and a track holds a box that is none of the
\* boxes of the detection file
C6_Witness ==
    /\ Returned("interpolate")
    /\ \E tid \in TrackIds(arr), f \in FrameIds(arr) :
        /\ f \in Present(arr, tid)
        /\ arr[tid][f] \notin InitBoxes
        /\ interpolate_tracklet_fn(arr, store, tid, MaxGap, imgs).arr = arr

ManifestFrames(st, tid) ==
    IF tid \in DOMAIN st THEN {st[tid].rows[i].frame : i \in DOMAIN st[tid].rows} ELSE {}

\* C7: for every track the frames of its manifest are frames at which its
\* array row holds a box.
C7_ManifestWithinArray ==
    \A tid \in DOMAIN store :
        /\ tid \in TrackIds(arr)
        /\ ManifestFrames(store, tid) \subseteq Present(arr, tid)

\* a split or merge has returned and the manifest of the new track has rows
C7_Witness ==
    /\ last.op \in {"split", "merge"}
    /\ last.status = "ok"
    /\ last.ret \in DOMAIN store
    /\ store[last.ret].rows # <<>>

\* C8 as claimed: a command either completes or leaves (Array, CropStore) as
\* it found them, also when a filesystem step fails.
C8_AtomicEvenOnFailure ==
    [][last'.status # "ok" => (arr' = arr /\ store' = store)]_vars

\* C8 as amended: a command rejected by one of its checks changes neither the
\* array nor the crop store; a command whose filesystem step fails leaves
\* the array as it found it and touches no directory but those of its own
\* tracks and of the new track.
C8_AtomicUnlessFsFails ==
    [][/\ last'.status \in {"range", "same", "conflict"} => (arr' = arr /\ store' = store)
       /\ last'.status = "OSError" =>
            /\ arr' = arr
            /\ LET own == IF last'.op = "split" THEN {last'.a} ELSE {last'.a, last'.b}
               IN  \A t \in DOMAIN store' \ (own \cup {num_tracks(arr)}) :
                        t \in DOMAIN store /\ store'[t] = store[t]]_vars

\* a split or merge has failed after moving crop files into the directory of
\* the track it was about to create
C8_Witness ==
    /\ last.status = "OSError"
    /\ num_tracks(arr) \in DOMAIN store
    /\ DOMAIN store[num_tracks(arr)].files # {}

\* C9: every cell of track index 0 and every cell of frame index 0 is absent.
C9_PaddingAbsent ==
    \A t \in DOMAIN arr : \A f \in DOMAIN arr[t] :
        (t = 0 \/ f = 0) => arr[t][f] = NanCell

\* a merge has grown an array that holds boxes
C9_Witness ==
    /\ Returned("merge")
    /\ Present(arr, last.ret) # {}
    /\ num_tracks(arr) = MaxRows

\* C10: every cell has all four fields absent or none, so the test on x and
\* the test on any field agree on every cell.
C10_AllOrNone ==
    \A t \in DOMAIN arr : \A f \in DOMAIN arr[t] :
        /\ arr[t][f] = NanCell \/ \A c \in 1..4 : ~isnan(arr[t][f][c])
        /\ ~isnan(arr[t][f][1]) <=> ~any_isnan(arr[t][f])

\* an interpolation has filled a cell of a row that a split created
C10_Witness ==
    /\ Returned("interpolate")
    /\ \E tid \in TrackIds(arr), f \in FrameIds(arr) :
        /\ f \in Present(arr, tid)
        /\ tid > Cardinality(InitTracks)
        /\ arr[tid][f] \notin InitBoxes

Tuples(rows) == {rows[i] : i \in DOMAIN rows}

RoundTrip ==
    /\ Tuples(array2txt(arr)) = Tuples(txt)
    /\ txt2array(read_csv(array2txt(arr))) = arr

\* C11 as claimed: for every well-formed text file, in any row order, the
\* rows array2txt writes from the decoded array are the records of the file,
\* and decoding them again gives the same array.
C11_RoundTrip ==
    last.op = "txt2array" => RoundTrip

\* C11 as amended: the same for files whose values are below 2^17 = 131072,
\* where neighbouring float32 values are less than 0.01 apart.
C11_RoundTripBelow2p17 ==
    (/\ last.op = "txt2array"
     /\ \A i \in DOMAIN txt : \A c \in 1..4 : txt[i].box[c] < 100 * Pow2(17)) => RoundTrip

\* a file of two rows, the later frame first, with values that are no
\* float32, has been decoded
C11_Witness ==
    /\ last.op = "txt2array"
    /\ Len(txt) = 2
    /\ txt[1].frame > txt[2].frame
    /\ {txt[1].box[1], txt[2].box[1]} = {1, 13107199}
    /\ num_tracks(arr) = 3

\* the files of a directory whose frame id is in S
FilesIn(dir, S) == [fid \in DOMAIN dir.files \cap S |-> dir.files[fid]]

\* C12: after Split(tid, split_frame) the crop images and manifest rows of
\* tid with frame >= split_frame are those of new_tid's directory, the ones
\* with frame < split_frame are those of tid's directory, and the rows of
\* the two manifests are as many as tid's manifest had.
C12_SplitMovesStore ==
    Running => \A tid \in TrackIds(arr), f \in FrameIds(arr) :
        LET R == split_tracklet(arr, store, tid, f)
            new_tid == R.last.ret
        IN  tid \in DOMAIN store =>
                /\ R.store[new_tid].files = FilesIn(store[tid], f..num_frames(arr))
                /\ R.store[tid].files = FilesIn(store[tid], 0..(f - 1))
                /\ Tuples(R.store[new_tid].rows)
                     = {r \in Tuples(store[tid].rows) : r.frame >= f}
                /\ Tuples(R.store[tid].rows)
                     = {r \in Tuples(store[tid].rows) : r.frame < f}
                /\ Len(R.store[tid].rows) + Len(R.store[new_tid].rows)
                     = Len(store[tid].rows)

\* a split has returned and left crops and manifest rows on both sides
C12_Witness ==
    /\ Returned("split")
    /\ last.ret \in DOMAIN store
    /\ store[last.ret].rows # <<>>
    /\ \E tid \in DOMAIN store \ {last.ret} :
        /\ store[tid].rows # <<>>
        /\ DOMAIN store[tid].files # {}
        /\ Max(DOMAIN store[tid].files) < Min(DOMAIN store[last.ret].files)
        /\ Present(arr, tid) = DOMAIN store[tid].files

\* the directory of a track, or an empty one when there is none
Dir(st, tid) == IF tid \in DOMAIN st THEN st[tid] ELSE EmptyDir

\* C13: after a successful Merge(tid_a, tid_b) the directory of new_tid
\* holds the crop images of both source directories, its manifest holds the
\* rows of both source manifests and no other, a source manifest is header
\* only, a source directory is still there and holds no crop image.
C13_MergeMovesStore ==
    Running => \A tid_a \in TrackIds(arr), tid_b \in TrackIds(arr) :
        LET R == merge_tracklets(arr, store, tid_a, tid_b)
            new_tid == R.last.ret
        IN  R.last.status = "ok" =>
                /\ new_tid \in DOMAIN R.store
                /\ DOMAIN R.store[new_tid].files
                     = DOMAIN Dir(store, tid_a).files \cup DOMAIN Dir(store, tid_b).files
                /\ \A src \in {tid_a, tid_b} : \A fid \in DOMAIN Dir(store, src).files :
                        R.store[new_tid].files[fid] = store[src].files[fid]
                /\ R.store[new_tid].has_manifest
                /\ Tuples(R.store[new_tid].rows)
                     = Tuples(Dir(store, tid_a).rows) \cup Tuples(Dir(store, tid_b).rows)
                /\ Len(R.store[new_tid].rows)
                     = Len(Dir(store, tid_a).rows) + Len(Dir(store, tid_b).rows)
                /\ \A src \in {tid_a, tid_b} :
                        /\ src \in DOMAIN R.store <=> src \in DOMAIN store
                        /\ src \in DOMAIN store =>
                            /\ DOMAIN R.store[src].files = {}
                            /\ R.store[src].rows = <<>>
                            /\ R.store[src].has_manifest = store[src].has_manifest

\* a merge has returned: the new directory holds two crops and two rows and
\* two older directories are left with a header-only manifest
C13_Witness ==
    /\ Returned("merge")
    /\ last.ret \in DOMAIN store
    /\ Cardinality(DOMAIN store[last.ret].files) >= 2
    /\ Len(store[last.ret].rows) >= 2
    /\ \E tid_a \in DOMAIN store, tid_b \in DOMAIN store :
        /\ tid_a < tid_b /\ tid_b < last.ret
        /\ \A src \in {tid_a, tid_b} :
            /\ store[src].has_manifest
            /\ store[src].rows = <<>>
            /\ DOMAIN store[src].files = {}
            /\ RowAbsent(arr, src)

\* C14 as claimed: in every reachable state the frames of the crop images of
\* a track are the frames of the rows of its manifest, one row per image.
C14_CropsMatchManifest ==
    \A tid \in DOMAIN store :
        /\ DOMAIN store[tid].files = ManifestFrames(store, tid)
        /\ Len(store[tid].rows) = Cardinality(DOMAIN store[tid].files)

\* the crop files of the store, as (directory, frame id) pairs
AllFiles(st) == UNION {{<<tid, fid>> : fid \in DOMAIN st[tid].files} : tid \in DOMAIN st}

\* C15 as claimed: a Split or Merge that finds a file of the same name in the
\* destination directory leaves that file as it is and skips the move: every
\* file the directory of the new track held is unchanged and the store has
\* as many crop files as before.
C15_MoveNeverOverwrites ==
    [][(last'.op \in {"split", "merge"} /\ last'.status = "ok") =>
            /\ \A fid \in DOMAIN Dir(store, last'.ret).files :
                    store'[last'.ret].files[fid] = store[last'.ret].files[fid]
            /\ Cardinality(AllFiles(store')) = Cardinality(AllFiles(store))]_vars

\* the box lies entirely outside the ImgW x ImgH image
Outside(bbox) ==
    \/ bbox[1].v + bbox[3].v <= 0
    \/ bbox[2].v + bbox[4].v <= 0
    \/ bbox[1].v >= ImgW * Scale
    \/ bbox[2].v >= ImgH * Scale

\* C16 as claimed: a box entirely outside the image is skipped: its track
\* has no crop file and no manifest row at its frame.
C16_OutsideBoxSkipped ==
    \A tid \in TrackIds(arr), fid \in FrameIds(arr) :
        (~any_isnan(arr[tid][fid]) /\ Outside(arr[tid][fid])) =>
            /\ fid \notin DOMAIN Dir(store, tid).files
            /\ fid \notin ManifestFrames(store, tid)

\* the maximal runs of consecutive frames of S, as (start, end) pairs
MaximalRuns(S) ==
    {<<s, e>> \in S \X S :
        /\ s <= e
        /\ \A f \in s..e : f \in S
        /\ s - 1 \notin S
        /\ e + 1 \notin S}

\* C17 as claimed: the lines visualize_array draws for a track are the
\* maximal runs of consecutive present frames, each run once.
C17_ExistenceIntervals ==
    last.op = "visualize_array" =>
        \A tid \in TrackIds(arr) :
            /\ Tuples(chart[tid]) = MaximalRuns(Present(arr, tid))
            /\ Len(chart[tid]) = Cardinality(MaximalRuns(Present(arr, tid)))

\* C18: a Split or Merge that returns gives the axis-0 length before the
\* call as new_tid and grows axis 0 by exactly one row, so the id is larger
\* than every id there was; every other step, Interpolate among them,
\* leaves the shape of the array as it is.
C18_NewTidIsAxisLength ==
    [][/\ num_frames(arr') = num_frames(arr)
       /\ IF last'.op \in {"split", "merge"} /\ last'.status = "ok"
          THEN /\ last'.ret = num_tracks(arr)
               /\ num_tracks(arr') = num_tracks(arr) + 1
               /\ \A tid \in TrackIds(arr) : tid < last'.ret
          ELSE num_tracks(arr') = num_tracks(arr)]_vars

\* a merge has returned the last id the bound allows while an older row,
\* cleared by a merge or emptied by a split, keeps its id and its directory
C18_Witness ==
    /\ Returned("merge")
    /\ last.ret = MaxRows - 1
    /\ num_tracks(arr) = MaxRows
    /\ \E tid \in TrackIds(arr) :
        /\ tid < last.ret
        /\ RowAbsent(arr, tid)
        /\ tid \in DOMAIN store

\* the two orders of the arguments of a merge that is accepted
MergeOrders ==
    {<<tid_a, tid_b>> \in TrackIds(arr) \X TrackIds(arr) :
        merge_status(arr, tid_a, tid_b) = "ok"}

FrameEffect(R, named) ==
    /\ num_frames(R.arr) = num_frames(arr)
    /\ \A tid \in DOMAIN arr \ named : R.arr[tid] = arr[tid]
    /\ \A tid \in TrackIds(arr) : \A f \in Present(arr, tid) :
            \E t2 \in TrackIds(R.arr) : R.arr[t2][f] = arr[tid][f]
    /\ \A tid \in DOMAIN store : tid \in DOMAIN R.store
    /\ \A tid \in DOMAIN R.store \ (named \cup {num_tracks(arr)}) :
            tid \in DOMAIN store /\ R.store[tid] = store[tid]

\* C20: Split, Merge and Interpolate keep every array row but those of the
\* named tracks and the new row, keep the frame-axis length, keep every box
\* that was present at its frame with its value (in the same row, for
\* Interpolate), and keep the directories and manifests of all other tracks.
C20_FrameEffect ==
    Running =>
        /\ \A tid \in TrackIds(arr), f \in FrameIds(arr) :
                FrameEffect(split_tracklet(arr, store, tid, f), {tid})
        /\ \A tid_a \in TrackIds(arr), tid_b \in TrackIds(arr) :
                FrameEffect(merge_tracklets(arr, store, tid_a, tid_b), {tid_a, tid_b})
        /\ \A tid \in TrackIds(arr), max_gap \in 1..MaxGap :
                LET R == interpolate_tracklet(arr, store, tid, max_gap, imgs)
                IN  /\ FrameEffect(R, {tid})
                    /\ \A f \in Present(arr, tid) : R.arr[tid][f] = arr[tid][f]

\* an interpolation has filled a cell of one track while another track
\* holds boxes, crops and manifest rows
C20_Witness ==
    /\ Returned("interpolate")
    /\ \E tid \in TrackIds(arr), other \in TrackIds(arr) :
        /\ tid # other
        /\ \E f \in FrameIds(arr) : f \in Present(arr, tid) /\ arr[tid][f] \notin InitBoxes
        /\ Present(arr, other) # {}
        /\ other \in DOMAIN store
        /\ store[other].rows # <<>>

\* the rows of a manifest are in ascending frame order, one row per frame
AscendingByFrame(rows) ==
    \A i \in DOMAIN rows : \A j \in DOMAIN rows : i < j => rows[i].frame < rows[j].frame

\* C22 as claimed: in every reachable state the rows of every manifest are
\* in ascending frame order with no frame twice.
C22_ManifestAscending ==
    \A tid \in DOMAIN store : AscendingByFrame(store[tid].rows)

\* C23: Interpolate returns, and for every frame f it fills the array cell is
\* set whether or not the source image of f exists, and the directory of tid
\* has a crop for f exactly when the image exists and the clamped region of
\* the interpolated box is not degenerate.
C23_InterpolateCrops ==
    Running => \A tid \in TrackIds(arr), max_gap \in 1..MaxGap :
        LET R == interpolate_tracklet(arr, store, tid, max_gap, imgs)
        IN  /\ R.last.status = "ok"
            /\ \A t \in FrameIds(arr), t_next \in FrameIds(arr) :
                (Adjacent(arr, tid, t, t_next) /\ 1 < t_next - t /\ t_next - t <= max_gap) =>
                    \A k \in 1..(t_next - t - 1) :
                        /\ ~any_isnan(R.arr[tid][t + k])
                        /\ t + k \in DOMAIN R.store[tid].files
                             <=> /\ t + k \in imgs
                                 /\ interp_crop(arr[tid][t], arr[tid][t_next],
                                                k, t_next - t).ok

\* an interpolation has filled frame 2, whose image is missing, with no crop
\* and frame 3 with a crop; another has filled a cell whose crop is degenerate
C23_Witness ==
    /\ Returned("interpolate")
    /\ 2 \notin imgs
    /\ \E tid \in TrackIds(arr) :
        /\ Present(arr, tid) = {1, 2, 3, 4}
        /\ arr[tid][2] \notin CropBoxes
        /\ arr[tid][3] \notin CropBoxes
        /\ tid \in DOMAIN store
        /\ 2 \notin DOMAIN store[tid].files
        /\ 3 \in DOMAIN store[tid].files

\* C24: in every state reached by Split, Merge and Interpolate no directory
\* has an id from the axis-0 length on, the crop files of a track are at
\* frames where its row is present, and so two tracks that Merge accepts
\* hold no crop for the same frame: no move finds its destination existing.
C24_NoMoveCollision ==
    /\ \A tid \in DOMAIN store :
        /\ tid < num_tracks(arr)
        /\ DOMAIN store[tid].files \subseteq Present(arr, tid)
    /\ Running => \A o \in MergeOrders :
            DOMAIN Dir(store, o[1]).files \cap DOMAIN Dir(store, o[2]).files = {}

\* a merge has returned after a split: three directories are left without
\* crops and the new one holds two
C24_Witness ==
    /\ Returned("merge")
    /\ num_tracks(arr) = MaxRows
    /\ Cardinality(DOMAIN store) = MaxRows - 1
    /\ Cardinality(DOMAIN store[last.ret].files) = 2
    /\ Cardinality(AllFiles(store)) = 2

\* C25: for every in-range tid and split frame f, Merge(tid, n1) after
\* (arr1, n1) = Split(tid, f) returns, and the row of the track it creates
\* is the row tid had before the split, its crop files and the rows of its
\* manifest are those tid's directory held before the split.
C25_SplitThenMerge ==
    Running => \A tid \in TrackIds(arr), f \in FrameIds(arr) :
        LET R1 == split_tracklet(arr, store, tid, f)
            R2 == merge_tracklets(R1.arr, R1.store, tid, R1.last.ret)
            n2 == R2.last.ret
        IN  /\ R2.last.status = "ok"
            /\ R2.arr[n2] = arr[tid]
            /\ R2.store[n2].files = Dir(store, tid).files
            /\ Tuples(R2.store[n2].rows) = Tuples(Dir(store, tid).rows)

\* a merge has returned a track of two boxes and two crops; the row minted
\* just before it and every older row are cleared
C25_Witness ==
    /\ Returned("merge")
    /\ last.ret = MaxRows - 1
    /\ \A tid \in 1..(last.ret - 1) : RowAbsent(arr, tid)
    /\ last.ret - 1 \in DOMAIN store
    /\ store[last.ret - 1].has_manifest
    /\ Cardinality(Present(arr, last.ret)) = 2
    /\ DOMAIN store[last.ret].files = Present(arr, last.ret)
    /\ Len(store[last.ret].rows) = 2
    /\ AscendingByFrame(store[last.ret].rows)

\* C26: Interpolate(tid, max_gap) fills a cell from the two frames that were
\* adjacent present frames before the call, keeps every present cell, leaves
\* no two adjacent present frames a gap g with 1 < g <= max_gap apart, and
\* leaves the first and the last present frame of tid where they were.
C26_InterpolateEndpoints ==
    Running => \A tid \in TrackIds(arr), max_gap \in 1..MaxGap :
        LET R == interpolate_tracklet(arr, store, tid, max_gap, imgs)
            before == Present(arr, tid)
            after == Present(R.arr, tid)
        IN  /\ before \subseteq after
            /\ \A f \in after \ before :
                \E t \in before, t_next \in before :
                    /\ Adjacent(arr, tid, t, t_next)
                    /\ t < f /\ f < t_next
                    /\ R.arr[tid][f] = [c \in 1..4 |->
                            lerp(arr[tid][t][c], arr[tid][t_next][c], f - t, t_next - t)]
            /\ \A t \in after, t_next \in after :
                Adjacent(R.arr, tid, t, t_next) => ~(1 < t_next - t /\ t_next - t <= max_gap)
            /\ before # {} => (Min(after) = Min(before) /\ Max(after) = Max(before))
            /\ before = {} => after = {}

\* an interpolation has returned: a track starts after frame 1 with a box of
\* the detection file, then holds a filled cell, and ends with another
C26_Witness ==
    /\ Returned("interpolate")
    /\ \E tid \in TrackIds(arr) :
        /\ Present(arr, tid) = {2, 3, 4}
        /\ arr[tid][2] \in InitBoxes
        /\ arr[tid][3] \notin InitBoxes
        /\ arr[tid][4] \in InitBoxes
        /\ arr[tid][2] # arr[tid][4]

\* C21 as claimed: within a command no step changes the in-memory array
\* once the command has made a filesystem call, the saved array changes only
\* when the filesystem steps are done, and a command that fails leaves the
\* saved array as it was.
C21_MutateThenFsThenSave ==
    [][/\ (mem.op # "none" /\ mem'.op = mem.op /\ mem'.arr_new # mem.arr_new) => ~mem.fs
       /\ arr' # arr => mem.pc = "save"
       /\ last'.status = "OSError" => arr' = arr]_vars

====
